---- MODULE Spec2Model ----
(***************************************************************************)
(* A model of the four structural-transformation routines of the           *)
(* repository: format_ranges, parse_ranges, add and deep_flatten.          *)
(*                                                                         *)
(* Strings are sequences of one-character strings, so that formatting and  *)
(* parsing are computed character by character.  Python values that may be *)
(* a number, a string or a list are tagged records (Num, Str, List).       *)
(***************************************************************************)
EXTENDS Integers, Sequences, FiniteSets, TLC

(***************************************************************************)
(* Bounds of the model.                                                    *)
(***************************************************************************)
MaxLen == 4        \* longest enumerated input list of format_ranges
MaxVal == 2        \* enumerated list values are MinVal..MaxVal
MaxTokens == 2     \* most tokens in an enumerated parse_ranges input
MaxAddNodes == 6   \* most nodes in the enumerated arguments of add
MaxFlatNodes == 5  \* most nodes in an enumerated argument of deep_flatten

MinVal == 0 - 2

Values == MinVal..MaxVal

(***************************************************************************)
(* Generic sequence helpers.                                               *)
(***************************************************************************)
RECURSIVE SeqsUpTo(_, _)
SeqsUpTo(S, n) ==
    IF n = 0 THEN {<<>>}
    ELSE LET shorter == SeqsUpTo(S, n - 1)
         IN  shorter \cup {Append(s, x) : s \in {t \in shorter : Len(t) = n - 1}, x \in S}

Range(s) == {s[i] : i \in 1..Len(s)}

RECURSIVE Concat(_)
Concat(ss) == IF ss = <<>> THEN <<>> ELSE Head(ss) \o Concat(Tail(ss))

(***************************************************************************)
(* str(int) and int(str), character by character.                          *)
(***************************************************************************)
DigitChars == <<"0", "1", "2", "3", "4", "5", "6", "7", "8", "9">>

IsDigit(ch) == \E d \in 1..10 : DigitChars[d] = ch

DigitVal(ch) == (CHOOSE d \in 1..10 : DigitChars[d] = ch) - 1

RECURSIVE Digits(_)
Digits(n) ==
    IF n < 10 THEN <<DigitChars[n + 1]>>
    ELSE Append(Digits(n \div 10), DigitChars[(n % 10) + 1])

\* str(n) for an int n
str(n) == IF n < 0 THEN <<"-">> \o Digits(0 - n) ELSE Digits(n)

RECURSIVE LStrip(_)
LStrip(s) == IF s # <<>> /\ Head(s) = " " THEN LStrip(Tail(s)) ELSE s

RECURSIVE RStrip(_)
RStrip(s) ==
    IF s # <<>> /\ s[Len(s)] = " " THEN RStrip(SubSeq(s, 1, Len(s) - 1)) ELSE s

\* digit (_? digit)* : the digits of an int literal, single underscores between
RECURSIVE DigitBody(_, _)
DigitBody(s, afterDigit) ==
    IF s = <<>> THEN afterDigit
    ELSE IF IsDigit(Head(s)) THEN DigitBody(Tail(s), TRUE)
    ELSE Head(s) = "_" /\ afterDigit /\ Tail(s) # <<>> /\ IsDigit(s[2])
         /\ DigitBody(Tail(s), FALSE)

RECURSIVE DigitsValue(_, _)
DigitsValue(s, acc) ==
    IF s = <<>> THEN acc
    ELSE IF Head(s) = "_" THEN DigitsValue(Tail(s), acc)
    ELSE DigitsValue(Tail(s), acc * 10 + DigitVal(Head(s)))

\* int(s): [ok |-> FALSE] stands for ValueError
int(s) ==
    LET t == RStrip(LStrip(s))
        signed == t # <<>> /\ Head(t) \in {"+", "-"}
        body == IF signed THEN Tail(t) ELSE t
    IN  IF DigitBody(body, FALSE)
        THEN [ok |-> TRUE,
              v |-> IF signed /\ Head(t) = "-" THEN 0 - DigitsValue(body, 0)
                    ELSE DigitsValue(body, 0)]
        ELSE [ok |-> FALSE, v |-> 0]

\* s.split(sep) for a one-character separator
RECURSIVE split(_, _)
split(s, sep) ==
    IF \A i \in 1..Len(s) : s[i] # sep THEN <<s>>
    ELSE LET i == CHOOSE j \in 1..Len(s) : s[j] = sep /\ \A k \in 1..(j - 1) : s[k] # sep
         IN  <<SubSeq(s, 1, i - 1)>> \o split(SubSeq(s, i + 1, Len(s)), sep)

\* sep.join(parts)
RECURSIVE join(_, _)
join(sep, parts) ==
    IF parts = <<>> THEN <<>>
    ELSE IF Len(parts) = 1 THEN parts[1]
    ELSE parts[1] \o <<sep>> \o join(sep, Tail(parts))

(***************************************************************************)
(* format_ranges                                                           *)
(***************************************************************************)
RECURSIVE InsertInt(_, _)
InsertInt(x, s) ==
    IF s = <<>> THEN <<x>>
    ELSE IF x < Head(s) THEN <<x>> \o s
    ELSE <<Head(s)>> \o InsertInt(x, Tail(s))

\* a variant that leaves the list in the order given
Unsorted(s) == s

\* sorted(initial)
RECURSIVE sorted(_)
sorted(s) == IF s = <<>> THEN <<>> ELSE InsertInt(Head(s), sorted(Tail(s)))

\* Counter(sorted_list): keys in first-insertion order, each with its count
RECURSIVE Counter(_)
Counter(s) ==
    IF s = <<>> THEN <<>>
    ELSE LET init == Counter(SubSeq(s, 1, Len(s) - 1))
             x == s[Len(s)]
         IN  IF \E i \in 1..Len(init) : init[i].item = x
             THEN [i \in 1..Len(init) |->
                      IF init[i].item = x
                      THEN [item |-> x, count |-> init[i].count + 1]
                      ELSE init[i]]
             ELSE Append(init, [item |-> x, count |-> 1])

NoStart == [none |-> TRUE, start |-> 0, it |-> 0]

\* `not start`: start is None or 0
NotStart(st) == st.none \/ st.start = 0

\* the for loop over c.items(), from the entry at index i on
RECURSIVE ScanItems(_, _, _)
ScanItems(cnt, i, st) ==
    IF i > Len(cnt) THEN st
    ELSE LET item == cnt[i].item
         IN  IF NotStart(st)
             THEN ScanItems(cnt, i + 1, [none |-> FALSE, start |-> item, it |-> item])
             ELSE IF item = st.it + 1
             THEN ScanItems(cnt, i + 1, [st EXCEPT !.it = item])
             ELSE ScanItems(cnt, i + 1, st)

RECURSIVE AbsentKeys(_, _, _)
AbsentKeys(present, lo, hi) ==
    IF lo > hi THEN <<>>
    ELSE (IF lo \in present THEN <<>> ELSE <<lo>>) \o AbsentKeys(present, lo + 1, hi)

\* c.subtract({k: 1 for k in range(lo, hi + 1)})
Subtract(cnt, lo, hi) ==
    LET present == {cnt[i].item : i \in 1..Len(cnt)}
        dec == [i \in 1..Len(cnt) |->
                   IF cnt[i].item \in lo..hi
                   THEN [item |-> cnt[i].item, count |-> cnt[i].count - 1]
                   ELSE cnt[i]]
        absent == AbsentKeys(present, lo, hi)
    IN  dec \o [i \in 1..Len(absent) |-> [item |-> absent[i], count |-> 0 - 1]]

\* a variant that keeps every entry
KeepAll(cnt) == cnt

\* c += Counter(): drop the entries whose count is not positive
RECURSIVE KeepPositive(_)
KeepPositive(cnt) ==
    IF cnt = <<>> THEN <<>>
    ELSE IF Head(cnt).count > 0 THEN <<Head(cnt)>> \o KeepPositive(Tail(cnt))
    ELSE KeepPositive(Tail(cnt))

PairLess(p, q) == p[1] < q[1] \/ (p[1] = q[1] /\ p[2] < q[2])

RECURSIVE InsertPair(_, _)
InsertPair(p, s) ==
    IF s = <<>> THEN <<p>>
    ELSE IF PairLess(p, Head(s)) THEN <<p>> \o s
    ELSE <<Head(s)>> \o InsertPair(p, Tail(s))

\* result.sort(): tuples in lexicographic order
RECURSIVE SortPairs(_)
SortPairs(s) == IF s = <<>> THEN <<>> ELSE InsertPair(Head(s), SortPairs(Tail(s)))

\* f"{i}-{j}" if i != j else str(i)
Render(p) == IF p[1] # p[2] THEN str(p[1]) \o <<"-">> \o str(p[2]) ELSE str(p[1])

\* ','.join(... for i, j in result)
RenderAll(res) == join(",", [k \in 1..Len(res) |-> Render(res[k])])

\* one pass of the while loop: the pair appended and the counter left
Pass(cnt) ==
    LET st == ScanItems(cnt, 1, NoStart)
    IN  [pair |-> <<st.start, st.it>>,
         c |-> KeepPositive(Subtract(cnt, st.start, st.it))]

RECURSIVE WhileLoop(_, _)
WhileLoop(cnt, res) ==
    IF cnt = <<>> THEN res
    ELSE WhileLoop(Pass(cnt).c, Append(res, Pass(cnt).pair))

\* the whole function, for comparing two calls
format_ranges(lst) == RenderAll(SortPairs(WhileLoop(Counter(sorted(lst)), <<>>)))

(***************************************************************************)
(* parse_ranges                                                            *)
(***************************************************************************)
ExitMark == <<">", "e", "x", "i", "t">>

RECURSIVE range(_, _)
range(lo, hi) == IF lo >= hi THEN <<>> ELSE <<lo>> \o range(lo + 1, hi)

\* a variant whose ranges stop one short: range(int(a), int(b))
ParseTokenExclusive(range_of_numbers) ==
    LET parts == split(range_of_numbers, "-")
    IN  IF Len(parts) # 2
        THEN LET n == int(range_of_numbers)
             IN  IF n.ok THEN [err |-> FALSE, vals |-> <<n.v>>]
                 ELSE [err |-> TRUE, vals |-> <<>>]
        ELSE LET a == parts[1]
                 b == parts[2]
             IN  IF b = ExitMark
                 THEN IF int(a).ok THEN [err |-> FALSE, vals |-> <<int(a).v>>]
                      ELSE [err |-> TRUE, vals |-> <<>>]
                 ELSE IF int(a).ok /\ int(b).ok
                      THEN [err |-> FALSE, vals |-> range(int(a).v, int(b).v)]
                      ELSE [err |-> TRUE, vals |-> <<>>]

\* a variant that skips a token int() rejects instead of raising
ParseTokenSkipsBad(range_of_numbers) ==
    LET parts == split(range_of_numbers, "-")
    IN  IF Len(parts) # 2
        THEN LET n == int(range_of_numbers)
             IN  IF n.ok THEN [err |-> FALSE, vals |-> <<n.v>>]
                 ELSE [err |-> FALSE, vals |-> <<>>]
        ELSE LET a == parts[1]
                 b == parts[2]
             IN  IF b = ExitMark
                 THEN IF int(a).ok THEN [err |-> FALSE, vals |-> <<int(a).v>>]
                      ELSE [err |-> TRUE, vals |-> <<>>]
                 ELSE IF int(a).ok /\ int(b).ok
                      THEN [err |-> FALSE, vals |-> range(int(a).v, int(b).v + 1)]
                      ELSE [err |-> TRUE, vals |-> <<>>]

\* the body of the for loop for one range_of_numbers: the values it yields,
\* or err when it raises ValueError before yielding any
ParseToken(range_of_numbers) ==
    LET parts == split(range_of_numbers, "-")
    IN  IF Len(parts) # 2
        THEN \* a, b = ... raises ValueError: yield int(range_of_numbers)
             LET n == int(range_of_numbers)
             IN  IF n.ok THEN [err |-> FALSE, vals |-> <<n.v>>]
                 ELSE [err |-> TRUE, vals |-> <<>>]
        ELSE LET a == parts[1]
                 b == parts[2]
             IN  IF b = ExitMark
                 THEN IF int(a).ok THEN [err |-> FALSE, vals |-> <<int(a).v>>]
                      ELSE [err |-> TRUE, vals |-> <<>>]
                 ELSE IF int(a).ok /\ int(b).ok
                      THEN [err |-> FALSE, vals |-> range(int(a).v, int(b).v + 1)]
                      ELSE [err |-> TRUE, vals |-> <<>>]

(***************************************************************************)
(* Nested Python values: numbers, strings and lists.                       *)
(***************************************************************************)
\* k is the type; n the value of a number, s the characters of a string and
\* v the elements of a list
Num(n) == [k |-> "num", n |-> n, s |-> <<>>, v |-> <<>>]
Str(s) == [k |-> "str", n |-> 0, s |-> s, v |-> <<>>]
List(s) == [k |-> "list", n |-> 0, s |-> <<>>, v |-> s]

\* the forests (sequences of nested values) of exactly n nodes over leaves L
RECURSIVE Forests(_, _)
Forests(L, n) ==
    IF n = 0 THEN {<<>>}
    ELSE UNION {
           {<<t>> \o f :
              t \in (IF k = 1 THEN L ELSE {}) \cup {List(g) : g \in Forests(L, k - 1)},
              f \in Forests(L, n - k)} : k \in 1..n}

Trees(L, n) == (IF n = 1 THEN L ELSE {}) \cup {List(g) : g \in Forests(L, n - 1)}

\* iter(x) succeeds
Iterable(x) == x.k \in {"list", "str"}

\* what `for item in x` iterates over: the elements of a list, the
\* one-character strings of a string
Iterate(x) ==
    IF x.k = "str" THEN [i \in 1..Len(x.s) |-> Str(<<x.s[i]>>)] ELSE x.v

(***************************************************************************)
(* add                                                                     *)
(***************************************************************************)
fillvalue == [k |-> "fill", n |-> 0, s |-> <<>>, v |-> <<>>]

Returned(val) == [err |-> "none", val |-> val]
Raised(kind) == [err |-> kind, val |-> fillvalue]
NotCalled == [err |-> "not called", val |-> fillvalue]

SeqMax(lens) == IF lens = {} THEN 0 ELSE CHOOSE m \in lens : \A n \in lens : n <= m

\* the i-th tuple zip_longest(*seqs, fillvalue=fillvalue) yields
ZipLongest(seqs, i) ==
    [j \in 1..Len(seqs) |->
        IF i <= Len(Iterate(seqs[j])) THEN Iterate(seqs[j])[i] ELSE fillvalue]

ZipLen(seqs) == SeqMax({Len(Iterate(seqs[j])) : j \in 1..Len(seqs)})

\* a variant that takes the first number instead of the sum
FirstNum(tuple) == Head(tuple).n

\* sum(items) of numbers
RECURSIVE SumNums(_)
SumNums(tuple) == IF tuple = <<>> THEN 0 ELSE Head(tuple).n + SumNums(Tail(tuple))

\* the inner for loop, from the j-th tuple of zip_longest(*zipped) on
RECURSIVE AddItems(_, _, _)
AddItems(zipped, j, inp) ==
    IF j > ZipLen(zipped) THEN Returned(List(inp))
    ELSE LET tuple == ZipLongest(zipped, j)
         IN  IF fillvalue \in Range(tuple) THEN Raised("ValueError")
             ELSE IF \E x \in Range(tuple) : x.k # "num" THEN Raised("TypeError")
             ELSE AddItems(zipped, j + 1, Append(inp, Num(SumNums(tuple))))

\* a variant of the outer loop without `if fillvalue in zipped`
RECURSIVE AddZippedUnchecked(_, _, _)
AddZippedUnchecked(arguments, i, response) ==
    IF i > ZipLen(arguments) THEN Returned(List(response))
    ELSE LET zipped == ZipLongest(arguments, i)
         IN  IF \E x \in Range(zipped) : ~Iterable(x) THEN Raised("TypeError")
             ELSE LET row == AddItems(zipped, 1, <<>>)
                  IN  IF row.err # "none" THEN row
                      ELSE AddZippedUnchecked(arguments, i + 1, Append(response, row.val))

\* the outer for loop, from the i-th tuple of zip_longest(*args) on
RECURSIVE AddZipped(_, _, _)
AddZipped(arguments, i, response) ==
    IF i > ZipLen(arguments) THEN Returned(List(response))
    ELSE LET zipped == ZipLongest(arguments, i)
         IN  IF fillvalue \in Range(zipped) THEN Raised("ValueError")
             ELSE IF \E x \in Range(zipped) : ~Iterable(x) THEN Raised("TypeError")
             ELSE LET row == AddItems(zipped, 1, <<>>)
                  IN  IF row.err # "none" THEN row
                      ELSE AddZipped(arguments, i + 1, Append(response, row.val))

add(arguments) ==
    IF \E x \in Range(arguments) : ~Iterable(x) THEN Raised("TypeError")
    ELSE AddZipped(arguments, 1, <<>>)

(***************************************************************************)
(* deep_flatten                                                            *)
(***************************************************************************)
\* a variant that flattens one level only: `yield from item`
FlattenOneLevel(x) ==
    IF ~Iterable(x) THEN <<x>>
    ELSE LET its == Iterate(x)
         IN  Concat([i \in 1..Len(its) |->
                        IF its[i].k = "list" THEN its[i].v ELSE <<its[i]>>])

RECURSIVE deep_flatten(_)
deep_flatten(x) ==
    IF ~Iterable(x) THEN <<x>>
    ELSE LET its == Iterate(x)
         IN  Concat([i \in 1..Len(its) |->
                        IF its[i].k = "str" THEN <<its[i]>> ELSE deep_flatten(its[i])])

(***************************************************************************)
(* Inputs.                                                                 *)
(***************************************************************************)
NumList(s) == List([i \in 1..Len(s) |-> Num(s[i])])

ExampleLists ==
    {<<1, 2, 3, 5, 7, 8, 9>>, <<7, 5, 9, 1, 3, 8, 2>>, <<9, 10, 11>>, <<0, 1, 2, 3, 4>>}

FormatInputs == SeqsUpTo(Values, MaxLen) \cup ExampleLists

TokenSet ==
    { <<"1">>, <<"3">>, <<"1", "2">>, <<"1", "-", "3">>, <<"3", "-", "1">>,
      <<"2", "-", "2">>, <<"1", "-", "2", "-", "3">>, <<"a">>, <<"1", "-", "a">>,
      <<"a", "-", "1">>, <<>>, <<"-", "1">>, <<"1", "-">>, <<"-", "-", "1">>,
      <<"5", "-">> \o ExitMark, <<"a", "-">> \o ExitMark,
      <<"1", "-", "2", "-">> \o ExitMark, <<" ", "1">>, <<"+", "2">>,
      <<"1", "_", "0">>, <<"1", "-", "_", "2">> }

ExampleTexts ==
    { <<"1", "-", "3", ",", "5", ",", "7", "-", "9">>,
      <<"0", ",", "4", "-", "8", ",", "2", "0", "-">> \o ExitMark
         \o <<",", "4", "3", "-", "4", "5">> }

ParseInputs ==
    {join(",", ts) : ts \in SeqsUpTo(TokenSet, MaxTokens) \ {<<>>}} \cup ExampleTexts

AddLeaves == {Num(1)}

AddExamples ==
    { <<NumList(<<1, 2>>), NumList(<<3, 4>>)>>,
      <<NumList(<<1, 2>>), NumList(<<3>>)>>,
      <<List(<<Num(1), NumList(<<2, 3>>)>>), List(<<Num(4), NumList(<<5, 6>>)>>)>>,
      <<List(<<NumList(<<1, 2>>), NumList(<<3, 4>>)>>),
        List(<<NumList(<<5, 6>>), NumList(<<7, 8>>)>>)>>,
      <<List(<<NumList(<<1, 2>>), NumList(<<3, 4>>)>>)>>,
      <<List(<<NumList(<<1, 2>>), NumList(<<3, 4>>)>>), List(<<NumList(<<5, 6>>)>>)>>,
      <<List(<<NumList(<<1, 2>>)>>), List(<<NumList(<<3>>)>>)>>,
      <<List(<<NumList(<<1>>)>>), List(<<NumList(<<2>>)>>), List(<<NumList(<<3>>)>>)>>,
      <<List(<<List(<<NumList(<<1>>)>>)>>), List(<<List(<<NumList(<<2>>)>>)>>)>>,
      <<List(<<List(<<NumList(<<1>>)>>)>>), List(<<List(<<NumList(<<1, 2>>)>>)>>)>> }

AddInputs == UNION {Forests(AddLeaves, n) : n \in 1..MaxAddNodes} \cup AddExamples

FlatLeaves == {Num(1), Num(2), Str(<<"a", "b">>)}

FlatExamples ==
    { List(<<Num(1), List(<<Num(2), NumList(<<3, 4>>), Num(5)>>), Str(<<"a", "b">>),
             NumList(<<6>>)>>),
      List(<<Str(<<"a">>), List(<<Str(<<"b">>), Str(<<"c">>)>>),
             List(<<List(<<Str(<<"d">>)>>)>>)>>),
      Num(5), Str(<<>>), Str(<<"a">>), Str(<<"a", "b", "c">>) }

FlattenInputs == UNION {Trees(FlatLeaves, n) : n \in 1..MaxFlatNodes} \cup FlatExamples

(***************************************************************************)
(* State.                                                                  *)
(***************************************************************************)
VARIABLES
    initial,       \* format_ranges: its argument
    c,             \* format_ranges: the Counter
    result,        \* format_ranges: the list of (start, it) pairs
    out,           \* format_ranges: the string returned
    fr_pc,         \* format_ranges: "idle", "call", "loop" or "done"
    input_string,  \* parse_ranges: its argument
    idx,           \* parse_ranges: tokens of input_string.split(',') consumed
    yielded,       \* parse_ranges: the values yielded so far
    pr_pc,         \* parse_ranges: "idle", "run", "done" or "error" (ValueError)
    args,          \* add: its arguments
    add_res,       \* add: what the call returned or raised
    add_pc,        \* add: "idle", "call" or "done"
    items,         \* deep_flatten: its argument
    leaves,        \* deep_flatten: the values yielded
    df_pc          \* deep_flatten: "idle", "call" or "done"

vars == <<initial, c, result, out, fr_pc, input_string, idx, yielded, pr_pc,
          args, add_res, add_pc, items, leaves, df_pc>>

frVars == <<initial, c, result, out, fr_pc>>
prVars == <<input_string, idx, yielded, pr_pc>>
addVars == <<args, add_res, add_pc>>
dfVars == <<items, leaves, df_pc>>

IdleFormat == initial = <<>> /\ c = <<>> /\ result = <<>> /\ out = <<>> /\ fr_pc = "idle"
IdleParse == input_string = <<>> /\ idx = 0 /\ yielded = <<>> /\ pr_pc = "idle"
IdleAdd == args = <<>> /\ add_res = NotCalled /\ add_pc = "idle"
IdleFlatten == items = Num(0) /\ leaves = <<>> /\ df_pc = "idle"

Init ==
    \/ /\ initial \in FormatInputs
       /\ c = <<>> /\ result = <<>> /\ out = <<>> /\ fr_pc = "call"
       /\ IdleParse /\ IdleAdd /\ IdleFlatten
    \/ /\ input_string \in ParseInputs
       /\ idx = 0 /\ yielded = <<>> /\ pr_pc = "run"
       /\ IdleFormat /\ IdleAdd /\ IdleFlatten
    \/ /\ args \in AddInputs
       /\ add_res = NotCalled /\ add_pc = "call"
       /\ IdleFormat /\ IdleParse /\ IdleFlatten
    \/ /\ items \in FlattenInputs
       /\ leaves = <<>> /\ df_pc = "call"
       /\ IdleFormat /\ IdleParse /\ IdleAdd

(***************************************************************************)
(* format_ranges, one while-loop pass per step.                            *)
(***************************************************************************)
\* lines 5-9: sorted_list = sorted(initial); c = Counter(sorted_list)
FrCall ==
    /\ fr_pc = "call"
    /\ c' = Counter(sorted(initial))
    /\ result' = <<>>
    /\ fr_pc' = "loop"
    /\ UNCHANGED <<initial, out, prVars, addVars, dfVars>>

\* lines 10-21: one pass of `while c`
FrPass ==
    /\ fr_pc = "loop"
    /\ c # <<>>
    /\ result' = Append(result, Pass(c).pair)
    /\ c' = Pass(c).c
    /\ UNCHANGED <<initial, out, fr_pc, prVars, addVars, dfVars>>

\* lines 22-23: result.sort(); return ','.join(...)
FrReturn ==
    /\ fr_pc = "loop"
    /\ c = <<>>
    /\ result' = SortPairs(result)
    /\ out' = RenderAll(SortPairs(result))
    /\ fr_pc' = "done"
    /\ UNCHANGED <<initial, c, prVars, addVars, dfVars>>

(***************************************************************************)
(* parse_ranges, one token per step.                                       *)
(***************************************************************************)
Tokens == split(input_string, ",")

\* parse_ranges(format_ranges(initial)): the round trip
RoundTrip ==
    /\ fr_pc = "done"
    /\ pr_pc = "idle"
    /\ input_string' = out
    /\ idx' = 0
    /\ yielded' = <<>>
    /\ pr_pc' = "run"
    /\ UNCHANGED <<frVars, addVars, dfVars>>

\* one iteration of the for loop over input_string.split(',')
PrToken ==
    /\ pr_pc = "run"
    /\ idx < Len(Tokens)
    /\ LET r == ParseToken(Tokens[idx + 1])
       IN  IF r.err
           THEN pr_pc' = "error" /\ UNCHANGED <<idx, yielded>>
           ELSE pr_pc' = "run" /\ idx' = idx + 1 /\ yielded' = yielded \o r.vals
    /\ UNCHANGED <<input_string, frVars, addVars, dfVars>>

\* the for loop is exhausted: the generator returns
PrReturn ==
    /\ pr_pc = "run"
    /\ idx = Len(Tokens)
    /\ pr_pc' = "done"
    /\ UNCHANGED <<input_string, idx, yielded, frVars, addVars, dfVars>>

(***************************************************************************)
(* add and deep_flatten, one call per step.                                *)
(***************************************************************************)
AddCall ==
    /\ add_pc = "call"
    /\ add_res' = add(args)
    /\ add_pc' = "done"
    /\ UNCHANGED <<args, frVars, prVars, dfVars>>

DfCall ==
    /\ df_pc = "call"
    /\ leaves' = deep_flatten(items)
    /\ df_pc' = "done"
    /\ UNCHANGED <<items, frVars, prVars, addVars>>

Next == FrCall \/ FrPass \/ FrReturn \/ RoundTrip \/ PrToken \/ PrReturn \/ AddCall \/ DfCall

Spec == Init /\ [][Next]_vars

(***************************************************************************)
(* Vocabulary of the properties.                                           *)
(***************************************************************************)
Occurrences(lst, x) == Cardinality({i \in 1..Len(lst) : lst[i] = x})

\* a list that is a set of non-negative integers
NonNegDistinct(lst) ==
    /\ \A i \in 1..Len(lst) : lst[i] >= 0
    /\ \A i, j \in 1..Len(lst) : lst[i] = lst[j] => i = j

\* the maximal runs of consecutive integers of a set
MaximalRuns(S) ==
    {p \in S \X S : /\ p[1] <= p[2]
                    /\ \A k \in p[1]..p[2] : k \in S
                    /\ (p[1] - 1) \notin S
                    /\ (p[2] + 1) \notin S}

\* the tokens of res that cover x
Covering(res, x) == Cardinality({i \in 1..Len(res) : res[i][1] <= x /\ x <= res[i][2]})

CountOf(cnt, x) ==
    IF \E i \in 1..Len(cnt) : cnt[i].item = x
    THEN cnt[CHOOSE i \in 1..Len(cnt) : cnt[i].item = x].count
    ELSE 0

RECURSIVE Total(_)
Total(cnt) == IF cnt = <<>> THEN 0 ELSE Head(cnt).count + Total(Tail(cnt))

SwapFirst(lst) ==
    IF Len(lst) < 2 THEN lst ELSE <<lst[2], lst[1]>> \o SubSeq(lst, 3, Len(lst))

Rotate(lst) == IF lst = <<>> THEN lst ELSE Append(Tail(lst), Head(lst))

\* the distinct values of lst, each at its first occurrence
RECURSIVE Distinct(_)
Distinct(lst) ==
    IF lst = <<>> THEN <<>>
    ELSE LET init == Distinct(SubSeq(lst, 1, Len(lst) - 1))
         IN  IF lst[Len(lst)] \in Range(init) THEN init ELSE Append(init, lst[Len(lst)])

\* INTEGER of the range-string grammar: ^\d+$
IsInteger(tok) == tok # <<>> /\ \A i \in 1..Len(tok) : IsDigit(tok[i])

Dashes(tok) == {i \in 1..Len(tok) : tok[i] = "-"}

Left(tok) == SubSeq(tok, 1, (CHOOSE i \in Dashes(tok) : TRUE) - 1)
Right(tok) == SubSeq(tok, (CHOOSE i \in Dashes(tok) : TRUE) + 1, Len(tok))

\* INTEGER '-' INTEGER
IsPair(tok) == Cardinality(Dashes(tok)) = 1 /\ IsInteger(Left(tok)) /\ IsInteger(Right(tok))

InGrammar(tok) == IsInteger(tok) \/ IsPair(tok)

\* what the grammar says a token stands for
Denotes(tok) ==
    IF IsInteger(tok) THEN <<DigitsValue(tok, 0)>>
    ELSE LET a == DigitsValue(Left(tok), 0)
             b == DigitsValue(Right(tok), 0)
         IN  [i \in 1..(IF b < a THEN 0 ELSE b - a + 1) |-> a + i - 1]

\* arguments of identical shape: all numbers, or all lists of one length whose
\* elements at each index are of identical shape
RECURSIVE SameShape(_)
SameShape(xs) ==
    \/ \A i \in 1..Len(xs) : xs[i].k = "num"
    \/ /\ \A i \in 1..Len(xs) : xs[i].k = "list"
       /\ \A i \in 1..Len(xs) : Len(xs[i].v) = Len(xs[1].v)
       /\ \A e \in 1..Len(xs[1].v) : SameShape([i \in 1..Len(xs) |-> xs[i].v[e]])

\* the arithmetic sum of numbers
RECURSIVE Plus(_)
Plus(xs) == IF Len(xs) = 0 THEN 0 ELSE Plus(SubSeq(xs, 1, Len(xs) - 1)) + xs[Len(xs)].n

\* the leaf-by-leaf sum of arguments of identical shape
RECURSIVE LeafSum(_)
LeafSum(xs) ==
    IF \A i \in 1..Len(xs) : xs[i].k = "num"
    THEN Num(Plus(xs))
    ELSE List([e \in 1..Len(xs[1].v) |-> LeafSum([i \in 1..Len(xs) |-> xs[i].v[e]])])

\* a list of lists of numbers
IsMatrix(x) ==
    /\ x.k = "list"
    /\ \A r \in 1..Len(x.v) :
          /\ x.v[r].k = "list"
          /\ \A e \in 1..Len(x.v[r].v) : x.v[r].v[e].k = "num"

AllMatrices(xs) == \A i \in 1..Len(xs) : IsMatrix(xs[i])

\* the leaves of a nested value, depth first and left to right; a string is a leaf
RECURSIVE DepthFirstLeaves(_)
DepthFirstLeaves(x) ==
    IF x.k = "list"
    THEN Concat([i \in 1..Len(x.v) |-> DepthFirstLeaves(x.v[i])])
    ELSE <<x>>

(***************************************************************************)
(* Properties.                                                             *)
(***************************************************************************)
RoundTripped == fr_pc = "done" /\ pr_pc \in {"done", "error"}

\* C1: for every finite set S of non-negative integers, the empty set and sets
\* holding 0 included, parse_ranges(format_ranges(S)) completes without error
\* and yields exactly the integers of S.
C1_RoundTrip ==
    (RoundTripped /\ NonNegDistinct(initial)) =>
        (pr_pc = "done" /\ Range(yielded) = Range(initial))

\* The extent of C1's failure: the round trip holds of every non-empty set.
RoundTripNonEmpty ==
    (RoundTripped /\ NonNegDistinct(initial) /\ initial # <<>>) =>
        (pr_pc = "done" /\ Range(yielded) = Range(initial))

\* C2: for distinct non-negative integers, 0 included, format_ranges emits
\* exactly the maximal runs of consecutive integers, ascending by start, a run
\* of one integer as "n" and a longer one as "start-end".
C2_MaximalRuns ==
    (fr_pc = "done" /\ NonNegDistinct(initial)) =>
        /\ Range(result) = MaximalRuns(Range(initial))
        /\ \A i, j \in 1..Len(result) : i < j => result[i][2] + 1 < result[j][1]
        /\ out = join(",", [i \in 1..Len(result) |->
                     IF result[i][1] = result[i][2] THEN str(result[i][1])
                     ELSE str(result[i][1]) \o <<"-">> \o str(result[i][2])])

\* The extent of C2's failure: the runs are maximal when 0 is not in the input;
\* when it is, 0 is emitted as a token of its own.
MaximalRunsWithoutZero ==
    (fr_pc = "done" /\ NonNegDistinct(initial)) =>
        /\ 0 \notin Range(initial) => Range(result) = MaximalRuns(Range(initial))
        /\ 0 \in Range(initial) =>
              Range(result) = {<<0, 0>>} \cup MaximalRuns(Range(initial) \ {0})

\* C3, as claimed: format_ranges(L) equals format_ranges of the distinct values
\* of L, however often each value occurs.
C3_SetSemantics ==
    fr_pc = "done" => out = format_ranges(Distinct(initial))

\* C3, as amended: format_ranges(L) does not depend on the order of L (it is the
\* same after exchanging the first two elements and after rotating L, which
\* generate every reordering), and every integer is covered by exactly as many
\* emitted tokens as it occurs in L: duplicates are kept, not collapsed, and
\* the result is that of the distinct values only when L has no duplicates.
C3_MultisetSemantics ==
    fr_pc = "done" =>
        /\ out = format_ranges(Distinct(initial)) <=> Distinct(initial) = initial
        /\ out = format_ranges(SwapFirst(initial))
        /\ out = format_ranges(Rotate(initial))
        /\ \A i \in 1..Len(result) : result[i][1] <= result[i][2]
        /\ \A i \in 1..Len(result) : \A x \in result[i][1]..result[i][2] :
              Covering(result, x) = Occurrences(initial, x)
        /\ \A x \in Range(initial) : Covering(result, x) = Occurrences(initial, x)

C3_Witness ==
    /\ fr_pc = "done"
    /\ initial = <<2, 1, 1>>
    /\ out = <<"1", ",", "1", "-", "2">>

\* C4: parse_ranges yields token by token in input order, never sorted or
\* de-duplicated: after any number of tokens of the grammar, the values yielded
\* are those of the first token, then those of the second, and so on, "n"
\* standing for n and "a-b" for a, a+1, ..., b.
C4_InputOrder ==
    (pr_pc \in {"run", "done"} /\ \A i \in 1..idx : InGrammar(Tokens[i])) =>
        yielded = Concat([i \in 1..idx |-> Denotes(Tokens[i])])

C4_Witness ==
    /\ pr_pc = "done"
    /\ input_string = <<"1", "-", "3", ",", "5", ",", "7", "-", "9">>
    /\ yielded = <<1, 2, 3, 5, 7, 8, 9>>

AtToken == pr_pc = "run" /\ idx < Len(Tokens)

Fails == pr_pc' = "error" /\ yielded' = yielded

\* C5, as claimed: a token with more than one '-', or with a part on either
\* side of the '-' (or the whole token, when it has none) that is not numeric,
\* makes the sequence fail when it is reached, and nothing is yielded for it.
C5_EveryNonNumericPart ==
    [][(/\ AtToken
        /\ LET tok == Tokens[idx + 1]
           IN  \/ Cardinality(Dashes(tok)) > 1
               \/ Dashes(tok) = {} /\ ~int(tok).ok
               \/ /\ Cardinality(Dashes(tok)) = 1
                  /\ (~int(Left(tok)).ok \/ ~int(Right(tok)).ok))
       => Fails]_vars

\* C5, as amended: a token fails when it is reached, nothing being yielded for
\* it, if it has more than one '-', or no '-' and int() rejects it, or one '-'
\* and int() rejects its left part, or one '-' and its right part is neither
\* '>exit' nor accepted by int(). ("n->exit" is accepted and stands for n.)
C5_Malformed ==
    [][(/\ AtToken
        /\ LET tok == Tokens[idx + 1]
           IN  \/ Cardinality(Dashes(tok)) > 1
               \/ Dashes(tok) = {} /\ ~int(tok).ok
               \/ /\ Cardinality(Dashes(tok)) = 1
                  /\ \/ ~int(Left(tok)).ok
                     \/ Right(tok) # ExitMark /\ ~int(Right(tok)).ok)
       => Fails]_vars

C5_Witness ==
    /\ pr_pc = "error"
    /\ idx = 1
    /\ input_string = <<"1", "-", "3", ",", "1", "-", "2", "-", "3">>
    /\ yielded = <<1, 2, 3>>

\* C6, as claimed: for arguments of identical shape at any depth (numbers
\* included) add returns the leaf-by-leaf sum.
C6_AnyDepth ==
    (add_pc = "done" /\ SameShape(args)) => add_res = Returned(LeafSum(args))

\* C6, as amended: add sums exactly two levels.  For arguments of identical
\* shape that are lists of lists of numbers it returns the list of lists of
\* the leaf-by-leaf sums (so add(x) == x for one such x); for arguments of
\* identical shape of any other depth it raises TypeError.
C6_TwoLevels ==
    (add_pc = "done" /\ SameShape(args)) =>
        IF AllMatrices(args)
        THEN add_res = Returned(LeafSum(args))
        ELSE add_res = Raised("TypeError")

C6_Witness ==
    /\ add_pc = "done"
    /\ args = <<List(<<NumList(<<1, 2>>), NumList(<<3, 4>>)>>),
                List(<<NumList(<<5, 6>>), NumList(<<7, 8>>)>>)>>
    /\ add_res = Returned(List(<<NumList(<<6, 8>>), NumList(<<10, 12>>)>>))

\* C7, as claimed: add raises ValueError whenever its arguments are not of
\* identical shape.
C7_AlwaysValueError ==
    (add_pc = "done" /\ ~SameShape(args)) => add_res = Raised("ValueError")

\* C7, as amended: add never returns a result for arguments that are not of
\* identical shape: it raises ValueError or TypeError, with no partial sum;
\* the error is ValueError when the arguments are all lists of lists of
\* numbers, and TypeError when one of the arguments is a number.
C7_NeverReturns ==
    (add_pc = "done" /\ ~SameShape(args)) =>
        /\ add_res \in {Raised("ValueError"), Raised("TypeError")}
        /\ AllMatrices(args) => add_res = Raised("ValueError")
        /\ (\E i \in 1..Len(args) : args[i].k = "num") => add_res = Raised("TypeError")

C7_Witness ==
    /\ add_pc = "done"
    /\ args = <<List(<<NumList(<<1, 2>>), NumList(<<3, 4>>)>>), List(<<NumList(<<5, 6>>)>>)>>
    /\ add_res = Raised("ValueError")

\* C8: a string is an atomic leaf at every position: deep_flatten(s) of a
\* string s yields exactly [s], and a nested string is yielded whole.
C8_StringAtomic ==
    df_pc = "done" =>
        /\ items.k = "str" => leaves = <<items>>
        /\ \A i \in 1..Len(leaves) :
              leaves[i].k = "str" => leaves[i] \in Range(DepthFirstLeaves(items))

\* C9: deep_flatten of a nested sequence yields its leaves depth first, left to
\* right, each once, empty sequences adding none; of a non-iterable v it
\* yields [v].
C9_DepthFirst ==
    (df_pc = "done" /\ items.k # "str") => leaves = DepthFirstLeaves(items)

C9_Witness ==
    /\ df_pc = "done"
    /\ items = List(<<Num(1), List(<<Num(2), NumList(<<3, 4>>), Num(5)>>),
                      Str(<<"a", "b">>), NumList(<<6>>)>>)
    /\ leaves = <<Num(1), Num(2), Num(3), Num(4), Num(5), Str(<<"a", "b">>), Num(6)>>

InPass == fr_pc = "loop" /\ c # <<>>

\* C10: each pass of the while loop emits one pair whose integers all have a
\* positive remaining count and takes one occurrence of each away, so the
\* total remaining count, which is never negative and is zero only when the
\* counter is empty, strictly decreases: the loop ends; and no more tokens are
\* emitted than the input is long.
C10_PassDecreases ==
    /\ [][InPass =>
            LET p == result'[Len(result')]
            IN  /\ Len(result') = Len(result) + 1
                /\ p[1] <= p[2]
                /\ \A x \in p[1]..p[2] :
                      CountOf(c, x) > 0 /\ CountOf(c', x) = CountOf(c, x) - 1
                /\ \A i \in 1..Len(c) :
                      c[i].item \notin p[1]..p[2] => CountOf(c', c[i].item) = c[i].count
                /\ \A i \in 1..Len(c') : c'[i].count > 0 /\ CountOf(c, c'[i].item) > 0
                /\ Total(c') < Total(c)]_vars
    /\ [](fr_pc \in {"loop", "done"} =>
             /\ Len(result) + Total(c) <= Len(initial)
             /\ Total(c) >= 0
             /\ Total(c) = 0 <=> c = <<>>
             /\ fr_pc = "done" => c = <<>>)

C10_Witness ==
    /\ fr_pc = "done"
    /\ initial = <<0, 1, 0>>
    /\ result = <<<<0, 0>>, <<0, 0>>, <<1, 1>>>>

====
